---- MODULE Spec2Model ----
(***************************************************************************)
(* Model of app/mcp/mcp_server_trino.py: an MCP server that exposes a      *)
(* Trino cluster through list_tools, list_resources, read_resource and     *)
(* call_tool.                                                              *)
(*                                                                         *)
(* A Python str is modelled as a sequence of one-character strings, so     *)
(* that strip, upper, startswith, split, slicing and join are computed     *)
(* and not assumed.  The values None and "unset" are sequences holding one *)
(* multi-character element, which no str can equal.                        *)
(***************************************************************************)
EXTENDS Integers, Sequences, FiniteSets, TLC

(***************************************************************************)
(* Bounds of the model.                                                    *)
(***************************************************************************)
\* largest number of rows the engine returns for one statement
MaxRows == 2

(***************************************************************************)
(* String literals of the source.                                          *)
(***************************************************************************)
\* "localhost": default of TRINO_HOST
LOCALHOST ==
    <<"l","o","c","a","l","h","o","s","t">>

\* "8080": default of TRINO_PORT, before int()
DEFAULT_PORT ==
    <<"8","0","8","0">>

\* "Missing required Trino configuration": message of the ValueError of get_db_config
MSG_MISSING_CONFIG ==
    <<"M","i","s","s","i","n","g"," ","r","e","q","u","i","r","e","d"," ","T","r","i","n","o"," ","c","o","n","f","i","g","u","r","a","t","i","o","n">>

\* "SHOW TABLES IN ": list_resources statement prefix
SHOW_TABLES_IN ==
    <<"S","H","O","W"," ","T","A","B","L","E","S"," ","I","N"," ">>

\* "SELECT * FROM ": read_resource statement prefix
SELECT_FROM ==
    <<"S","E","L","E","C","T"," ","*"," ","F","R","O","M"," ">>

\* " LIMIT 100": read_resource statement suffix
LIMIT_100 ==
    <<" ","L","I","M","I","T"," ","1","0","0">>

\* "trino://": resource address scheme prefix
TRINO_SCHEME ==
    <<"t","r","i","n","o",":","/","/">>

\* "/data": resource address suffix
DATA_SUFFIX ==
    <<"/","d","a","t","a">>

\* "Table: ": resource display name prefix
TABLE_LABEL ==
    <<"T","a","b","l","e",":"," ">>

\* "text/plain": resource media type
TEXT_PLAIN ==
    <<"t","e","x","t","/","p","l","a","i","n">>

\* "Data in table: ": resource description prefix
DATA_IN_TABLE ==
    <<"D","a","t","a"," ","i","n"," ","t","a","b","l","e",":"," ">>

\* "Invalid URI scheme: ": message prefix of the ValueError of read_resource
MSG_INVALID_URI ==
    <<"I","n","v","a","l","i","d"," ","U","R","I"," ","s","c","h","e","m","e",":"," ">>

\* "Database error: ": message prefix of the RuntimeError of read_resource
MSG_DB_ERROR ==
    <<"D","a","t","a","b","a","s","e"," ","e","r","r","o","r",":"," ">>

\* "execute_sql": the tool name
EXECUTE_SQL ==
    <<"e","x","e","c","u","t","e","_","s","q","l">>

\* "Unknown tool: ": message prefix of the ValueError of call_tool
MSG_UNKNOWN_TOOL ==
    <<"U","n","k","n","o","w","n"," ","t","o","o","l",":"," ">>

\* "Query is required": message of the ValueError of call_tool
MSG_QUERY_REQUIRED ==
    <<"Q","u","e","r","y"," ","i","s"," ","r","e","q","u","i","r","e","d">>

\* "SHOW ": keyword tested by the first branch of call_tool
SHOW_PREFIX ==
    <<"S","H","O","W"," ">>

\* "SELECT": keyword tested by the second branch of call_tool
SELECT_PREFIX ==
    <<"S","E","L","E","C","T">>

\* the text of the third branch with its final period left out
MSG_SUCCESS_NoPeriod ==
    <<"Q","u","e","r","y"," ","e","x","e","c","u","t","e","d"," ","s","u","c","c","e","s","s","f","u","l","l","y">>

\* "Query executed successfully.": text of the third branch of call_tool
MSG_SUCCESS ==
    <<"Q","u","e","r","y"," ","e","x","e","c","u","t","e","d"," ","s","u","c","c","e","s","s","f","u","l","l","y",".">>

\* "Error executing query: ": text prefix of the handled engine failure of call_tool
MSG_EXEC_ERROR ==
    <<"E","r","r","o","r"," ","e","x","e","c","u","t","i","n","g"," ","q","u","e","r","y",":"," ">>

\* "https": http_scheme with a password
HTTPS ==
    <<"h","t","t","p","s">>

\* "http": http_scheme without a password
HTTP ==
    <<"h","t","t","p">>


(***************************************************************************)
(* Python built-ins used by the handlers.                                  *)
(***************************************************************************)
\* the value None (os.getenv of an unset variable, dict.get of a missing key)
None ==
    <<"<None>">>

\* truth value of a str or None: "not x" is true of None and of ""
Truthy(x) ==
    x # None /\ x # <<>>

\* characters removed by str.strip()
Whitespace ==
    {" ", "\t", "\n", "\r", "\f"}

RECURSIVE LStrip(_)
LStrip(s) ==
    IF s # <<>> /\ Head(s) \in Whitespace THEN LStrip(Tail(s)) ELSE s

RECURSIVE RStrip(_)
RStrip(s) ==
    IF s # <<>> /\ s[Len(s)] \in Whitespace
    THEN RStrip(SubSeq(s, 1, Len(s) - 1))
    ELSE s

\* str.strip()
Strip(s) ==
    RStrip(LStrip(s))

Lowercase ==
    <<"a","b","c","d","e","f","g","h","i","j","k","l","m",
      "n","o","p","q","r","s","t","u","v","w","x","y","z">>

Uppercase ==
    <<"A","B","C","D","E","F","G","H","I","J","K","L","M",
      "N","O","P","Q","R","S","T","U","V","W","X","Y","Z">>

UpperChar(c) ==
    IF \E i \in 1..Len(Lowercase) : Lowercase[i] = c
    THEN Uppercase[CHOOSE i \in 1..Len(Lowercase) : Lowercase[i] = c]
    ELSE c

\* str.upper()
Upper(s) ==
    [i \in 1..Len(s) |-> UpperChar(s[i])]

\* a prefix test that ignores case
StartsWith_AnyCase(s, prefix) ==
    /\ Len(s) >= Len(prefix)
    /\ Upper(SubSeq(s, 1, Len(prefix))) = Upper(prefix)

\* str.startswith(prefix)
StartsWith(s, prefix) ==
    /\ Len(s) >= Len(prefix)
    /\ SubSeq(s, 1, Len(prefix)) = prefix

\* a slice that starts one character early
SliceFrom_OneEarly(s, n) ==
    SubSeq(s, n, Len(s))

\* s[n:]
SliceFrom(s, n) ==
    SubSeq(s, n + 1, Len(s))

RECURSIVE Split(_, _)
\* str.split(sep) for a one-character separator
Split(s, sep) ==
    IF \E i \in 1..Len(s) : s[i] = sep
    THEN LET k == CHOOSE i \in 1..Len(s) :
                      s[i] = sep /\ \A j \in 1..(i - 1) : s[j] # sep
         IN  <<SubSeq(s, 1, k - 1)>> \o Split(SubSeq(s, k + 1, Len(s)), sep)
    ELSE <<s>>

RECURSIVE Join(_, _)
\* sep.join(parts)
Join(sep, parts) ==
    IF parts = <<>> THEN <<>>
    ELSE IF Len(parts) = 1 THEN parts[1]
    ELSE parts[1] \o sep \o Join(sep, Tail(parts))

Digit(d) ==
    <<"0","1","2","3","4","5","6","7","8","9">>[d + 1]

RECURSIVE NatToStr(_)
NatToStr(n) ==
    IF n < 10 THEN <<Digit(n)>> ELSE NatToStr(n \div 10) \o <<Digit(n % 10)>>

\* a result cell is an int or a str
IntCell(n) ==
    [kind |-> "int", n |-> n, s |-> <<>>]

StrCell(s) ==
    [kind |-> "str", n |-> 0, s |-> s]

\* str(value) of a result cell
Str(cell) ==
    CASE cell.kind = "int"  -> IF cell.n < 0 THEN <<"-">> \o NatToStr(-cell.n)
                                             ELSE NatToStr(cell.n)
      [] cell.kind = "str"  -> cell.s

\* map(str, row)
MapStr(row) ==
    [i \in 1..Len(row) |-> Str(row[i])]

(***************************************************************************)
(* Exceptions and handler outcomes.                                        *)
(***************************************************************************)
\* a raised exception: its Python type and its message
Exception(type, msg) ==
    [type |-> type, msg |-> msg]

\* "invalid literal for int() with base 10: ": message prefix of int()
MSG_INVALID_LITERAL ==
    <<"i","n","v","a","l","i","d"," ","l","i","t","e","r","a","l"," ","f","o","r"," ",
      "i","n","t","(",")"," ","w","i","t","h"," ","b","a","s","e"," ","1","0",":"," ">>

Digits ==
    {"0","1","2","3","4","5","6","7","8","9"}

DigitValue(c) ==
    CHOOSE d \in 0..9 : Digit(d) = c

\* whether int(s) accepts the text (decimal digits only in this model)
IsIntLiteral(s) ==
    /\ s # <<>>
    /\ \A i \in 1..Len(s) : s[i] \in Digits

RECURSIVE ParseInt(_)
\* int(s) of a text that IsIntLiteral accepts
ParseInt(s) ==
    IF Len(s) = 1 THEN DigitValue(s[1])
    ELSE 10 * ParseInt(SubSeq(s, 1, Len(s) - 1)) + DigitValue(s[Len(s)])

(***************************************************************************)
(* get_db_config and create_trino_connection.  The environment e is what   *)
(* os.getenv sees after load_dotenv(): one value per variable, None when   *)
(* the variable is unset.                                                  *)
(***************************************************************************)
\* os.getenv(name, default)
Getenv(e, name, default) ==
    IF e[name] = None THEN default ELSE e[name]

\* the dict built at lines 24-31, port still as text
RawConfig(e) ==
    [host     |-> Getenv(e, "TRINO_HOST", LOCALHOST),
     port     |-> Getenv(e, "TRINO_PORT", DEFAULT_PORT),
     user     |-> Getenv(e, "TRINO_USER", None),
     password |-> Getenv(e, "TRINO_PASSWORD", <<>>),
     catalog  |-> Getenv(e, "TRINO_CATALOG", None),
     schema   |-> Getenv(e, "TRINO_SCHEMA", None)]

\* the dict of lines 24-31 once int() succeeded
Config(e) ==
    [RawConfig(e) EXCEPT !.port = ParseInt(RawConfig(e).port)]

\* a test that forgets the schema
AllRequired_NoSchema(config) ==
    /\ Truthy(config.host)
    /\ config.port # 0
    /\ Truthy(config.user)
    /\ Truthy(config.catalog)

\* the test of line 34: all([host, port, user, catalog, schema])
AllRequired(config) ==
    /\ Truthy(config.host)
    /\ config.port # 0
    /\ Truthy(config.user)
    /\ Truthy(config.catalog)
    /\ Truthy(config.schema)

NoConfig ==
    [host |-> <<>>, port |-> 0, user |-> <<>>, password |-> <<>>,
     catalog |-> <<>>, schema |-> <<>>]

NoException ==
    Exception("", <<>>)

\* get_db_config(): the config, or the ValueError it raises
get_db_config(e) ==
    IF ~IsIntLiteral(RawConfig(e).port)
    THEN [ok |-> FALSE, config |-> NoConfig,
          error |-> Exception("ValueError",
                       MSG_INVALID_LITERAL \o <<"'">> \o RawConfig(e).port \o <<"'">>)]
    ELSE IF ~AllRequired(Config(e))
    THEN [ok |-> FALSE, config |-> NoConfig,
          error |-> Exception("ValueError", MSG_MISSING_CONFIG)]
    ELSE [ok |-> TRUE, config |-> Config(e), error |-> NoException]

\* auth = None
NoAuth ==
    [kind |-> "None", username |-> <<>>, password |-> <<>>]

BasicAuthentication(username, password) ==
    [kind |-> "Basic", username |-> username, password |-> password]

\* a factory that keeps the plain transport also with a password
connect_PlainTransport(cfg) ==
    [host        |-> cfg.host,
     port        |-> cfg.port,
     user        |-> cfg.user,
     catalog     |-> cfg.catalog,
     schema      |-> cfg.schema,
     http_scheme |-> HTTP,
     auth        |-> IF Truthy(cfg.password)
                     THEN [kind |-> "Basic", username |-> cfg.user,
                           password |-> cfg.password]
                     ELSE [kind |-> "None", username |-> <<>>,
                           password |-> <<>>],
     closes      |-> 0]

\* the connection connect() returns for a config (lines 47-60); closes counts
\* the calls of conn.close()
connect(cfg) ==
    [host        |-> cfg.host,
     port        |-> cfg.port,
     user        |-> cfg.user,
     catalog     |-> cfg.catalog,
     schema      |-> cfg.schema,
     http_scheme |-> IF Truthy(cfg.password) THEN HTTPS ELSE HTTP,
     auth        |-> IF Truthy(cfg.password)
                     THEN BasicAuthentication(cfg.user, cfg.password)
                     ELSE NoAuth,
     closes      |-> 0]

\* create_trino_connection(): resolves the config again, then connects
create_trino_connection(e) ==
    IF get_db_config(e).ok
    THEN [ok |-> TRUE, conn |-> <<connect(get_db_config(e).config)>>,
          error |-> NoException]
    ELSE [ok |-> FALSE, conn |-> <<>>, error |-> get_db_config(e).error]

(***************************************************************************)
(* Inputs of the model: environments, requests and engine answers.         *)
(***************************************************************************)
EnvNames ==
    {"TRINO_HOST", "TRINO_PORT", "TRINO_USER", "TRINO_PASSWORD",
     "TRINO_CATALOG", "TRINO_SCHEMA"}

\* the values each environment variable takes in the model
EnvValues(name) ==
    CASE name = "TRINO_HOST"     -> {None, <<>>}
      [] name = "TRINO_PORT"     -> {None, <<>>, <<"0">>}
      [] name = "TRINO_USER"     -> {None, <<>>, <<"b","o","b">>}
      [] name = "TRINO_PASSWORD" -> {None, <<"p","w">>}
      [] name = "TRINO_CATALOG"  -> {None, <<"h","i","v","e">>, <<"m","e","m">>}
      [] name = "TRINO_SCHEMA"   -> {None, <<"s","1">>}

Environments ==
    {e \in [EnvNames -> UNION {EnvValues(n) : n \in EnvNames}] :
        \A n \in EnvNames : e[n] \in EnvValues(n)}

\* resource addresses a client sends, as str(uri)
Uris ==
    {<<"t","r","i","n","o",":","/","/","t","1","/","d","a","t","a">>,
     <<"t","r","i","n","o",":","/","/","t","2">>,
     <<"t","r","i","n","o",":","/","/","t","1","/","x","/","y">>,
     <<"f","t","p",":","/","/","t","1","/","d","a","t","a">>,
     <<"T","R","I","N","O",":","/","/","t","1">>}

ToolNames ==
    {EXECUTE_SQL, <<"o","t","h","e","r">>}

\* statements a client sends
Queries ==
    {<<>>,
     <<" ">>,
     <<"S","H","O","W"," ","T","A","B","L","E","S">>,
     <<" ","s","h","o","w"," ","x","\n">>,
     <<"s","h","o","w","\n","T","A","B","L","E","S">>,
     <<"S","E","L","E","C","T"," ","1">>,
     <<"\t","s","e","l","e","c","t","\n","a"," ">>,
     <<"D","R","O","P"," ","t">>}

\* a dict is the set of its (key, value) pairs
ArgumentSets ==
    {{}} \cup {{<<"query", q>>} : q \in Queries}
         \cup {{<<"sql", q>>} : q \in {<<"S","E","L","E","C","T"," ","1">>}}

\* arguments.get(key): the set holding the value, empty when the key is missing
DictGet(d, key) ==
    {p[2] : p \in {x \in d : x[1] = key}}

\* a test that only sees a missing key, not an empty value
DictGetFalsy_MissingOnly(d, key) ==
    DictGet(d, key) = {}

\* "not arguments.get(key)"
DictGetFalsy(d, key) ==
    \A v \in DictGet(d, key) : ~Truthy(v)

\* sequences of at most n elements of S
SeqUpTo(S, n) ==
    UNION {[1..k -> S] : k \in 0..n}

\* one-column rows and their description
TableRows ==
    {<<StrCell(<<"t","1">>)>>, <<StrCell(<<"t","2">>)>>}

TableColumns ==
    <<<<"T","a","b","l","e">>>>

\* two-column rows and their description
PairRows ==
    {<<IntCell(1), StrCell(<<"x">>)>>, <<IntCell(2), StrCell(<<"y">>)>>}

PairColumns ==
    <<<<"a">>, <<"b">>>>

\* what the engine holds for a submitted statement: cursor.description
\* (name first) and the rows fetchall() returns
ResultSet(columns, rows) ==
    [description |-> [i \in 1..Len(columns) |-> <<columns[i]>>], rows |-> rows]

\* answers to SHOW TABLES IN catalog.schema: one column
TableListings ==
    {ResultSet(TableColumns, rows) : rows \in SeqUpTo(TableRows, MaxRows)}

\* answers to any statement
ResultSets ==
    TableListings \cup
    {ResultSet(PairColumns, rows) : rows \in SeqUpTo(PairRows, MaxRows)}

\* exceptions cursor.execute() and cursor.fetchall() raise
EngineErrors ==
    {Exception("TrinoQueryError", <<"b","a","d">>),
     Exception("TrinoExternalError", <<"d","o","w","n">>),
     Exception("TrinoConnectionError", <<"n","e","t">>)}

\* the except clauses of lines 125, 164 and 217
Caught(e) ==
    e.type \in {"TrinoQueryError", "TrinoExternalError"}

(***************************************************************************)
(* State.                                                                  *)
(***************************************************************************)
VARIABLES
    env,        \* the environment os.getenv reads
    pc,         \* position of main() and of the handler being run
    request,    \* the protocol request being handled
    config,     \* local "config" of list_resources and read_resource
    table,      \* local "table" of read_resource
    query,      \* local "query" of call_tool
    conns,      \* connections created for this request, with their close counts
    cursor,     \* what the engine holds for the statement submitted last
    submitted,  \* statements passed to cursor.execute() in this request
    fetches,    \* number of cursor.fetchall() calls in this request
    raised,     \* exceptions the engine raised in this request
    outcome     \* what the handler returned or raised

vars ==
    <<env, pc, request, config, table, query, conns, cursor, submitted, fetches,
      raised, outcome>>

NoRequest ==
    [kind |-> "none", uri |-> <<>>, name |-> <<>>, arguments |-> {}]

NoCursor ==
    [description |-> <<>>, rows |-> <<>>, closed |-> FALSE]

NoOutcome ==
    [status |-> "none", value |-> <<>>, error |-> NoException]

\* "return value"
Returned(value) ==
    [status |-> "returned", value |-> value, error |-> NoException]

\* an exception leaving the handler
Raised(error) ==
    [status |-> "raised", value |-> <<>>, error |-> error]

\* the locals and the per-request bookkeeping before a handler starts
Fresh ==
    /\ config' = NoConfig
    /\ table' = <<>>
    /\ query' = <<>>
    /\ conns' = <<>>
    /\ cursor' = NoCursor
    /\ submitted' = <<>>
    /\ fetches' = 0
    /\ raised' = <<>>

\* the process is imported and main() has not run yet
Init ==
    /\ env \in Environments
    /\ pc = "main"
    /\ request = NoRequest
    /\ config = NoConfig
    /\ table = <<>>
    /\ query = <<>>
    /\ conns = <<>>
    /\ cursor = NoCursor
    /\ submitted = <<>>
    /\ fetches = 0
    /\ raised = <<>>
    /\ outcome = NoOutcome

\* app.run() waits for the next request
Idle ==
    pc = "serving"

(***************************************************************************)
(* main(): resolves the configuration, then serves requests.               *)
(***************************************************************************)
\* a main() that starts the transport without resolving the configuration
main_ServesUnchecked ==
    /\ pc = "main"
    /\ pc' = "serving"
    /\ outcome' = NoOutcome
    /\ UNCHANGED <<env, request, config, table, query, conns, cursor, submitted,
                   fetches, raised>>

main ==
    /\ pc = "main"
    /\ IF get_db_config(env).ok
       THEN /\ pc' = "serving"
            /\ outcome' = NoOutcome
       ELSE /\ pc' = "aborted"
            /\ outcome' = Raised(get_db_config(env).error)
    /\ UNCHANGED <<env, request, config, table, query, conns, cursor, submitted,
                   fetches, raised>>

\* app.run() sends the response of the handler and forgets the request
respond ==
    /\ pc = "done"
    /\ pc' = "serving"
    /\ request' = NoRequest
    /\ Fresh
    /\ outcome' = NoOutcome
    /\ UNCHANGED env

\* the environment (os.environ, the .env file) is changed from outside, while
\* the server waits for a request or between two steps of a handler
EnvChange ==
    /\ pc \notin {"main", "aborted", "done"}
    /\ \E n \in EnvNames : \E v \in EnvValues(n) :
          /\ v # env[n]
          /\ env' = [env EXCEPT ![n] = v]
    /\ UNCHANGED <<pc, request, config, table, query, conns, cursor, submitted,
                   fetches, raised, outcome>>

(***************************************************************************)
(* list_tools()                                                            *)
(***************************************************************************)
\* a Tool whose query argument is optional
ExecuteSqlTool_Optional ==
    [name        |-> EXECUTE_SQL,
     properties  |-> {<<"query", "string">>},
     required    |-> <<>>]

\* the Tool of lines 74-87
ExecuteSqlTool ==
    [name        |-> EXECUTE_SQL,
     properties  |-> {<<"query", "string">>},
     required    |-> <<"query">>]

list_tools ==
    /\ Idle
    /\ request' = [NoRequest EXCEPT !.kind = "list_tools"]
    /\ Fresh
    /\ outcome' = Returned(<<ExecuteSqlTool>>)
    /\ pc' = "done"
    /\ UNCHANGED env

(***************************************************************************)
(* list_resources()                                                        *)
(***************************************************************************)
\* a Resource whose address stops after the table name
Resource_NoSuffix(row) ==
    [uri         |-> TRINO_SCHEME \o Str(row[1]),
     name        |-> TABLE_LABEL \o Str(row[1]),
     mimeType    |-> TEXT_PLAIN,
     description |-> DATA_IN_TABLE \o Str(row[1])]

\* the Resource of lines 113-119 for one row (table_name,)
Resource(row) ==
    [uri         |-> TRINO_SCHEME \o Str(row[1]) \o DATA_SUFFIX,
     name        |-> TABLE_LABEL \o Str(row[1]),
     mimeType    |-> TEXT_PLAIN,
     description |-> DATA_IN_TABLE \o Str(row[1])]

\* the statement of line 105
show_tables_sql(catalog, schema) ==
    SHOW_TABLES_IN \o catalog \o <<".">> \o schema

\* an except clause that raises, as the one of read_resource does
list_resources_except_Raises(e) ==
    Raised(Exception("RuntimeError", MSG_DB_ERROR \o e.msg))

\* the except clause of lines 125-127; other exceptions leave the handler
list_resources_except(e) ==
    IF Caught(e) THEN Returned(<<>>) ELSE Raised(e)

\* lines 97-99
list_resources_config ==
    /\ Idle
    /\ request' = [NoRequest EXCEPT !.kind = "list_resources"]
    /\ table' = <<>>
    /\ query' = <<>>
    /\ conns' = <<>>
    /\ cursor' = NoCursor
    /\ submitted' = <<>>
    /\ fetches' = 0
    /\ raised' = <<>>
    /\ IF get_db_config(env).ok
       THEN /\ config' = get_db_config(env).config
            /\ outcome' = NoOutcome
            /\ pc' = "list_resources_connect"
       ELSE /\ config' = NoConfig
            /\ outcome' = Raised(get_db_config(env).error)
            /\ pc' = "done"
    /\ UNCHANGED env

\* lines 102-103
list_resources_connect ==
    /\ pc = "list_resources_connect"
    /\ IF create_trino_connection(env).ok
       THEN /\ conns' = conns \o create_trino_connection(env).conn
            /\ outcome' = NoOutcome
            /\ pc' = "list_resources_execute"
       ELSE /\ conns' = conns
            /\ outcome' = Raised(create_trino_connection(env).error)
            /\ pc' = "done"
    /\ UNCHANGED <<env, request, config, table, query, cursor, submitted, fetches,
                   raised>>

\* lines 105-106
list_resources_execute ==
    /\ pc = "list_resources_execute"
    /\ submitted' = Append(submitted,
                           show_tables_sql(config.catalog, config.schema))
    /\ \/ \E rs \in TableListings :
             /\ cursor' = [description |-> rs.description, rows |-> rs.rows,
                           closed |-> FALSE]
             /\ raised' = raised
             /\ outcome' = NoOutcome
             /\ pc' = "list_resources_fetch"
       \/ \E e \in EngineErrors :
             /\ cursor' = cursor
             /\ raised' = Append(raised, e)
             /\ outcome' = list_resources_except(e)
             /\ pc' = "done"
    /\ UNCHANGED <<env, request, config, table, query, conns, fetches>>

\* lines 107-123
list_resources_fetch ==
    /\ pc = "list_resources_fetch"
    /\ fetches' = fetches + 1
    /\ \/ /\ cursor' = [cursor EXCEPT !.closed = TRUE]
          /\ conns' = [conns EXCEPT ![Len(conns)].closes = @ + 1]
          /\ raised' = raised
          /\ outcome' = Returned([i \in 1..Len(cursor.rows) |->
                                     Resource(cursor.rows[i])])
       \/ \E e \in EngineErrors :
             /\ cursor' = cursor
             /\ conns' = conns
             /\ raised' = Append(raised, e)
             /\ outcome' = list_resources_except(e)
    /\ pc' = "done"
    /\ UNCHANGED <<env, request, config, table, query, submitted>>

(***************************************************************************)
(* read_resource(uri)                                                      *)
(***************************************************************************)
\* a sampling statement without its row cap
sample_sql_NoLimit(catalog, schema, tbl) ==
    SELECT_FROM \o catalog \o <<".">> \o schema \o <<".">> \o tbl

\* the statement of line 151
sample_sql(catalog, schema, tbl) ==
    SELECT_FROM \o catalog \o <<".">> \o schema \o <<".">> \o tbl \o LIMIT_100

\* [desc[0] for desc in cursor.description]
ColumnNames(description) ==
    [i \in 1..Len(description) |-> description[i][1]]

\* lines 155-162: header line, then one line per row
RenderSample(description, rows) ==
    Join(<<"\n">>,
         <<Join(<<",">>, ColumnNames(description))>> \o
         [i \in 1..Len(rows) |-> Join(<<",">>, MapStr(rows[i]))])

\* an except clause that absorbs the failure into an empty text
read_resource_except_Empty(e) ==
    IF Caught(e) THEN Returned(<<>>) ELSE Raised(e)

\* the except clause of lines 164-166; other exceptions leave the handler
read_resource_except(e) ==
    IF Caught(e)
    THEN Raised(Exception("RuntimeError", MSG_DB_ERROR \o e.msg))
    ELSE Raised(e)

\* lines 135-146
read_resource_config ==
    /\ Idle
    /\ \E uri \in Uris :
          /\ request' = [NoRequest EXCEPT !.kind = "read_resource", !.uri = uri]
          /\ IF ~get_db_config(env).ok
             THEN /\ config' = NoConfig
                  /\ table' = <<>>
                  /\ outcome' = Raised(get_db_config(env).error)
                  /\ pc' = "done"
             ELSE IF ~StartsWith(uri, TRINO_SCHEME)
             THEN /\ config' = get_db_config(env).config
                  /\ table' = <<>>
                  /\ outcome' = Raised(Exception("ValueError",
                                                 MSG_INVALID_URI \o uri))
                  /\ pc' = "done"
             ELSE /\ config' = get_db_config(env).config
                  /\ table' = Split(SliceFrom(uri, 8), "/")[1]
                  /\ outcome' = NoOutcome
                  /\ pc' = "read_resource_connect"
    /\ query' = <<>>
    /\ conns' = <<>>
    /\ cursor' = NoCursor
    /\ submitted' = <<>>
    /\ fetches' = 0
    /\ raised' = <<>>
    /\ UNCHANGED env

\* lines 149-150
read_resource_connect ==
    /\ pc = "read_resource_connect"
    /\ IF create_trino_connection(env).ok
       THEN /\ conns' = conns \o create_trino_connection(env).conn
            /\ outcome' = NoOutcome
            /\ pc' = "read_resource_execute"
       ELSE /\ conns' = conns
            /\ outcome' = Raised(create_trino_connection(env).error)
            /\ pc' = "done"
    /\ UNCHANGED <<env, request, config, table, query, cursor, submitted, fetches,
                   raised>>

\* lines 151-153
read_resource_execute ==
    /\ pc = "read_resource_execute"
    /\ submitted' = Append(submitted,
                           sample_sql(config.catalog, config.schema, table))
    /\ \/ \E rs \in ResultSets :
             /\ cursor' = [description |-> rs.description, rows |-> rs.rows,
                           closed |-> FALSE]
             /\ raised' = raised
             /\ outcome' = NoOutcome
             /\ pc' = "read_resource_fetch"
       \/ \E e \in EngineErrors :
             /\ cursor' = cursor
             /\ raised' = Append(raised, e)
             /\ outcome' = read_resource_except(e)
             /\ pc' = "done"
    /\ UNCHANGED <<env, request, config, table, query, conns, fetches>>

\* lines 155-162
read_resource_fetch ==
    /\ pc = "read_resource_fetch"
    /\ fetches' = fetches + 1
    /\ \/ /\ cursor' = [cursor EXCEPT !.closed = TRUE]
          /\ conns' = [conns EXCEPT ![Len(conns)].closes = @ + 1]
          /\ raised' = raised
          /\ outcome' = Returned(RenderSample(cursor.description, cursor.rows))
       \/ \E e \in EngineErrors :
             /\ cursor' = cursor
             /\ conns' = conns
             /\ raised' = Append(raised, e)
             /\ outcome' = read_resource_except(e)
    /\ pc' = "done"
    /\ UNCHANGED <<env, request, config, table, query, submitted>>

(***************************************************************************)
(* call_tool(name, arguments)                                              *)
(***************************************************************************)
TextContent(text) ==
    [type |-> "text", text |-> text]

\* the test of line 189
IsShow(q) ==
    StartsWith(Upper(Strip(q)), SHOW_PREFIX)

\* the test of line 201
IsSelect(q) ==
    StartsWith(Upper(Strip(q)), SELECT_PREFIX)

\* lines 192-198: the fields of a row joined by a tab, the rows by a newline
RenderShow(rows) ==
    Join(<<"\n">>, [i \in 1..Len(rows) |-> Join(<<"\t">>, MapStr(rows[i]))])

\* a rendering that leaves the header line out
RenderTable_NoHeader(description, rows) ==
    Join(<<"\n">>, [i \in 1..Len(rows) |-> Join(<<",">>, MapStr(rows[i]))])

\* lines 202-208: header line, then one line per row
RenderTable(description, rows) ==
    Join(<<"\n">>,
         <<Join(<<",">>, ColumnNames(description))>> \o
         [i \in 1..Len(rows) |-> Join(<<",">>, MapStr(rows[i]))])

\* the argument checks in the other order: query first, then name
call_tool_check_QueryFirst(name, arguments) ==
    IF DictGetFalsy(arguments, "query")
    THEN Exception("ValueError", MSG_QUERY_REQUIRED)
    ELSE IF name # EXECUTE_SQL
    THEN Exception("ValueError", MSG_UNKNOWN_TOOL \o name)
    ELSE NoException

\* lines 175-180: the ValueError of the argument checks, NoException when
\* they pass
call_tool_check(name, arguments) ==
    IF name # EXECUTE_SQL
    THEN Exception("ValueError", MSG_UNKNOWN_TOOL \o name)
    ELSE IF DictGetFalsy(arguments, "query")
    THEN Exception("ValueError", MSG_QUERY_REQUIRED)
    ELSE NoException

\* an except clause that lets the engine failure leave the handler
call_tool_except_Raises(e) ==
    Raised(e)

\* the except clause of lines 217-219; other exceptions leave the handler
call_tool_except(e) ==
    IF Caught(e)
    THEN Returned(<<TextContent(MSG_EXEC_ERROR \o e.msg)>>)
    ELSE Raised(e)

\* lines 173-180
call_tool_validate ==
    /\ Idle
    /\ \E name \in ToolNames : \E arguments \in ArgumentSets :
          /\ request' = [NoRequest EXCEPT !.kind = "call_tool", !.name = name,
                                          !.arguments = arguments]
          /\ IF call_tool_check(name, arguments) # NoException
             THEN /\ query' = <<>>
                  /\ outcome' = Raised(call_tool_check(name, arguments))
                  /\ pc' = "done"
             ELSE /\ query' \in DictGet(arguments, "query")
                  /\ outcome' = NoOutcome
                  /\ pc' = "call_tool_connect"
    /\ config' = NoConfig
    /\ table' = <<>>
    /\ conns' = <<>>
    /\ cursor' = NoCursor
    /\ submitted' = <<>>
    /\ fetches' = 0
    /\ raised' = <<>>
    /\ UNCHANGED env

\* lines 183-184
call_tool_connect ==
    /\ pc = "call_tool_connect"
    /\ IF create_trino_connection(env).ok
       THEN /\ conns' = conns \o create_trino_connection(env).conn
            /\ outcome' = NoOutcome
            /\ pc' = "call_tool_execute"
       ELSE /\ conns' = conns
            /\ outcome' = Raised(create_trino_connection(env).error)
            /\ pc' = "done"
    /\ UNCHANGED <<env, request, config, table, query, cursor, submitted,
                   fetches, raised>>

\* a submission that is attempted a second time after an engine failure
call_tool_execute_Retries ==
    /\ pc = "call_tool_execute"
    /\ submitted' = Append(submitted, query)
    /\ \/ \E rs \in ResultSets :
             /\ cursor' = [description |-> rs.description, rows |-> rs.rows,
                           closed |-> FALSE]
             /\ raised' = raised
             /\ outcome' = NoOutcome
             /\ pc' = "call_tool_result"
       \/ \E e \in EngineErrors :
             /\ cursor' = cursor
             /\ raised' = Append(raised, e)
             /\ IF raised = <<>>
                THEN /\ outcome' = NoOutcome
                     /\ pc' = "call_tool_execute"
                ELSE /\ outcome' = call_tool_except(e)
                     /\ pc' = "done"
    /\ UNCHANGED <<env, request, config, table, query, conns, fetches>>

\* lines 185-186
call_tool_execute ==
    /\ pc = "call_tool_execute"
    /\ submitted' = Append(submitted, query)
    /\ \/ \E rs \in ResultSets :
             /\ cursor' = [description |-> rs.description, rows |-> rs.rows,
                           closed |-> FALSE]
             /\ raised' = raised
             /\ outcome' = NoOutcome
             /\ pc' = "call_tool_result"
       \/ \E e \in EngineErrors :
             /\ cursor' = cursor
             /\ raised' = Append(raised, e)
             /\ outcome' = call_tool_except(e)
             /\ pc' = "done"
    /\ UNCHANGED <<env, request, config, table, query, conns, fetches>>

\* lines 196-197, 206-207, 213-214
call_tool_close ==
    /\ cursor' = [cursor EXCEPT !.closed = TRUE]
    /\ conns' = [conns EXCEPT ![Len(conns)].closes = @ + 1]
    /\ raised' = raised

\* cursor.fetchall() raises e
call_tool_fetch_fails(e) ==
    /\ cursor' = cursor
    /\ conns' = conns
    /\ raised' = Append(raised, e)
    /\ outcome' = call_tool_except(e)

\* lines 189-215
call_tool_result ==
    /\ pc = "call_tool_result"
    /\ IF IsShow(query)
       THEN /\ fetches' = fetches + 1
            /\ \/ /\ call_tool_close
                  /\ outcome' = Returned(<<TextContent(RenderShow(cursor.rows))>>)
               \/ \E e \in EngineErrors : call_tool_fetch_fails(e)
       ELSE IF IsSelect(query)
       THEN /\ fetches' = fetches + 1
            /\ \/ /\ call_tool_close
                  /\ outcome' = Returned(<<TextContent(
                                   RenderTable(cursor.description, cursor.rows))>>)
               \/ \E e \in EngineErrors : call_tool_fetch_fails(e)
       ELSE /\ fetches' = fetches
            /\ call_tool_close
            /\ outcome' = Returned(<<TextContent(MSG_SUCCESS)>>)
    /\ pc' = "done"
    /\ UNCHANGED <<env, request, config, table, query, submitted>>

(***************************************************************************)
(* The server: main(), then the handlers of the requests, one at a time.   *)
(***************************************************************************)
Next ==
    \/ main
    \/ respond
    \/ EnvChange
    \/ list_tools
    \/ list_resources_config
    \/ list_resources_connect
    \/ list_resources_execute
    \/ list_resources_fetch
    \/ read_resource_config
    \/ read_resource_connect
    \/ read_resource_execute
    \/ read_resource_fetch
    \/ call_tool_validate
    \/ call_tool_connect
    \/ call_tool_execute
    \/ call_tool_result

Spec ==
    Init /\ [][Next]_vars

TypeOK ==
    /\ env \in Environments
    /\ pc \in {"main", "aborted", "serving", "done",
               "list_resources_connect", "list_resources_execute",
               "list_resources_fetch", "read_resource_connect",
               "read_resource_execute", "read_resource_fetch",
               "call_tool_connect", "call_tool_execute", "call_tool_result"}
    /\ fetches \in 0..1
    /\ Len(conns) <= 1

(***************************************************************************)
(* Properties.                                                             *)
(***************************************************************************)
\* the handler of a request of this kind has returned or raised
Finished(kind) ==
    pc = "done" /\ request.kind = kind

\* the engine failed in this request with a query-level or an external error
EngineFailed ==
    /\ Len(raised) = 1
    /\ raised[1].type \in {"TrinoQueryError", "TrinoExternalError"}

\* text ends with suffix
EndsWith(text, suffix) ==
    /\ Len(text) >= Len(suffix)
    /\ \A i \in 1..Len(suffix) : text[Len(text) - Len(suffix) + i] = suffix[i]

\* C1: when a handler returns or raises, every connection it opened has been
\* closed exactly once, also on the paths where the engine failed.
C1_ClosedExactlyOnce ==
    pc = "done" => \A i \in 1..Len(conns) : conns[i].closes = 1

\* C2: a call_tool("execute_sql", {query: q}) with non-empty q in which the
\* engine failed while the statement was submitted or fetched returns one
\* text block that ends with the engine's message; it does not raise.
C2_EngineFailureIsText ==
    (Finished("call_tool") /\ EngineFailed)
        => /\ outcome.status = "returned"
           /\ Len(outcome.value) = 1
           /\ outcome.value[1].type = "text"
           /\ EndsWith(outcome.value[1].text, raised[1].msg)

\* a SHOW statement whose row fetch failed with an external engine error
C2_Witness ==
    /\ Finished("call_tool")
    /\ EngineFailed
    /\ raised[1].type = "TrinoExternalError"
    /\ fetches = 1
    /\ query = <<"S","H","O","W"," ","T","A","B","L","E","S">>
    /\ outcome.status = "returned"

\* C3: list_resources in which the engine failed while the table listing
\* was submitted or fetched returns the empty list and does not raise.
C3_ListFailureIsEmpty ==
    (Finished("list_resources") /\ EngineFailed)
        => /\ outcome.status = "returned"
           /\ outcome.value = <<>>

\* the fetch of the table listing failed
C3_Witness ==
    /\ Finished("list_resources")
    /\ EngineFailed
    /\ fetches = 1
    /\ Len(submitted) = 1
    /\ outcome.status = "returned"

\* C4: read_resource of a trino:// address in which the engine failed while
\* the sampling statement was submitted or fetched raises a RuntimeError
\* whose message ends with the engine's message; it returns no text.
C4_ReadFailureIsRuntimeError ==
    (Finished("read_resource") /\ EngineFailed)
        => /\ outcome.status = "raised"
           /\ outcome.error.type = "RuntimeError"
           /\ EndsWith(outcome.error.msg, raised[1].msg)
           /\ outcome.value = <<>>

\* the submission of the sampling statement failed with a query error
C4_Witness ==
    /\ Finished("read_resource")
    /\ EngineFailed
    /\ raised[1].type = "TrinoQueryError"
    /\ fetches = 0
    /\ Len(submitted) = 1
    /\ outcome.status = "raised"

\* arguments holds no query, or an empty one
QueryAbsentOrEmpty(arguments) ==
    \A p \in arguments : p[1] = "query" => p[2] = <<>>

\* C5: call_tool("execute_sql", arguments) whose query is absent or empty
\* raises the ValueError "Query is required" (MissingArgumentError) at once:
\* no connection is opened and no statement is submitted for the request.
C5_MissingQueryFailsFirst ==
    (/\ request.kind = "call_tool"
     /\ request.name = <<"e","x","e","c","u","t","e","_","s","q","l">>
     /\ QueryAbsentOrEmpty(request.arguments))
        => /\ pc = "done"
           /\ outcome = Raised(Exception("ValueError", MSG_QUERY_REQUIRED))
           /\ conns = <<>>
           /\ submitted = <<>>

\* execute_sql called with an empty query text
C5_Witness ==
    /\ Finished("call_tool")
    /\ request.name = EXECUTE_SQL
    /\ request.arguments = {<<"query", <<>>>>}
    /\ outcome.status = "raised"

\* C6: call_tool with a name other than execute_sql raises the ValueError
\* "Unknown tool: <name>" (UnknownToolError) whatever the arguments are; no
\* connection is opened and no statement is submitted for the request.
C6_UnknownToolFails ==
    (/\ request.kind = "call_tool"
     /\ request.name # <<"e","x","e","c","u","t","e","_","s","q","l">>)
        => /\ pc = "done"
           /\ outcome = Raised(Exception("ValueError",
                                         MSG_UNKNOWN_TOOL \o request.name))
           /\ conns = <<>>
           /\ submitted = <<>>

\* another tool called without a query
C6_Witness ==
    /\ Finished("call_tool")
    /\ request.name = <<"o","t","h","e","r">>
    /\ request.arguments = {}
    /\ outcome.status = "raised"

\* the address does not begin with trino://
BadScheme(uri) ==
    \/ Len(uri) < 8
    \/ \E i \in 1..8 : uri[i] # <<"t","r","i","n","o",":","/","/">>[i]

\* C7 as stated: read_resource of an address that does not begin with
\* trino:// raises the ValueError "Invalid URI scheme: <uri>"
\* (ValidationError), with no connection opened and no statement submitted.
C7_BadSchemeIsValidationError ==
    (Finished("read_resource") /\ BadScheme(request.uri))
        => /\ outcome = Raised(Exception("ValueError",
                                         MSG_INVALID_URI \o request.uri))
           /\ conns = <<>>
           /\ submitted = <<>>

\* C7 as amended: read_resource of an address that does not begin with
\* trino:// raises at once, with no connection opened and no statement
\* submitted: the ValueError of get_db_config when the configuration does
\* not resolve, else the ValueError "Invalid URI scheme: <uri>".
C7_BadSchemeFailsFirst ==
    (request.kind = "read_resource" /\ BadScheme(request.uri))
        => /\ pc = "done"
           /\ outcome.status = "raised"
           /\ outcome.error =
                 IF get_db_config(env).ok
                 THEN Exception("ValueError", MSG_INVALID_URI \o request.uri)
                 ELSE get_db_config(env).error
           /\ conns = <<>>
           /\ submitted = <<>>

\* an ftp:// address refused under a configuration that resolves
C7_Witness ==
    /\ Finished("read_resource")
    /\ request.uri = <<"f","t","p",":","/","/","t","1","/","d","a","t","a">>
    /\ get_db_config(env).ok
    /\ outcome.error.msg = MSG_INVALID_URI \o request.uri

\* the two spellings of a keyword letter
CaseVariants(K) ==
    {K, Lowercase[CHOOSE i \in 1..Len(Uppercase) : Uppercase[i] = K]}

\* after its leading whitespace, q starts with the keyword kw in any case
KeywordFirst(q, kw) ==
    \E k \in 0..Len(q) :
        /\ \A i \in 1..k : q[i] \in Whitespace
        /\ k + Len(kw) <= Len(q)
        /\ \A j \in 1..Len(kw) : q[k + j] \in CaseVariants(kw[j])

\* call_tool has opened its connection and the engine raised nothing
EngineAnswered ==
    /\ Finished("call_tool")
    /\ conns # <<>>
    /\ raised = <<>>

\* C8: for a statement that starts with SHOW, call_tool fetches the rows and
\* returns the fields of each row joined by a tab, the rows joined by a
\* newline, without a header line.
C8_ShowReturnsRows ==
    (EngineAnswered /\ KeywordFirst(query, <<"S","H","O","W">>))
        => /\ fetches = 1
           /\ outcome = Returned(<<TextContent(RenderShow(cursor.rows))>>)

\* C9: for a statement that starts with SELECT, call_tool returns one text
\* block: a first line of the column names joined by commas, then one line
\* per row of the result, in order and uncapped, of the row's fields joined
\* by commas; columns a,b with rows (1,x),(2,y) give "a,b\n1,x\n2,y" and no
\* rows give "a,b".
C9_SelectReturnsTable ==
    (EngineAnswered /\ KeywordFirst(query, <<"S","E","L","E","C","T">>))
        => /\ fetches = 1
           /\ outcome.status = "returned"
           /\ Len(outcome.value) = 1
           /\ outcome.value[1].type = "text"
           /\ LET lines == Split(outcome.value[1].text, "\n")
              IN  /\ Len(lines) = 1 + Len(cursor.rows)
                  /\ Split(lines[1], ",") = ColumnNames(cursor.description)
                  /\ \A i \in 1..Len(cursor.rows) :
                        Split(lines[i + 1], ",") = MapStr(cursor.rows[i])
           /\ (/\ ColumnNames(cursor.description) = <<<<"a">>, <<"b">>>>
               /\ cursor.rows = <<<<IntCell(1), StrCell(<<"x">>)>>,
                                  <<IntCell(2), StrCell(<<"y">>)>>>>)
                 => outcome.value[1].text =
                       <<"a",",","b","\n","1",",","x","\n","2",",","y">>
           /\ (/\ ColumnNames(cursor.description) = <<<<"a">>, <<"b">>>>
               /\ cursor.rows = <<>>)
                 => outcome.value[1].text = <<"a",",","b">>

\* a lower-case select with leading whitespace answered with two rows
C9_Witness ==
    /\ EngineAnswered
    /\ query = <<"\t","s","e","l","e","c","t","\n","a"," ">>
    /\ cursor.rows = <<<<IntCell(1), StrCell(<<"x">>)>>,
                       <<IntCell(2), StrCell(<<"y">>)>>>>
    /\ outcome.value[1].text =
          <<"a",",","b","\n","1",",","x","\n","2",",","y">>

\* C10: for a statement that starts with neither SHOW nor SELECT, call_tool
\* submits the statement once, fetches nothing and returns the text
\* "Query executed successfully." whatever the engine holds for it.
C10_OtherReturnsFixedText ==
    (/\ EngineAnswered
     /\ ~KeywordFirst(query, <<"S","H","O","W">>)
     /\ ~KeywordFirst(query, <<"S","E","L","E","C","T">>))
        => /\ submitted = <<query>>
           /\ request.arguments = {<<"query", query>>}
           /\ fetches = 0
           /\ outcome = Returned(<<TextContent(
                 <<"Q","u","e","r","y"," ","e","x","e","c","u","t","e","d"," ",
                   "s","u","c","c","e","s","s","f","u","l","l","y",".">>)>>)

\* a DROP for which the engine holds rows
C10_Witness ==
    /\ EngineAnswered
    /\ query = <<"D","R","O","P"," ","t">>
    /\ cursor.rows # <<>>
    /\ fetches = 0
    /\ outcome.status = "returned"

\* the step opens a connection
Opens ==
    Len(conns') = Len(conns) + 1

\* the environment holds a non-empty password
PasswordPresent(e) ==
    e["TRINO_PASSWORD"] \notin {<<"<None>">>, <<>>}

\* C11: a connection is opened with secure transport and username/password
\* authentication when the password of the environment is non-empty, and
\* with plain transport and no authentication when it is empty or unset.
C11_SecureIffPassword ==
    [][Opens =>
         LET c == conns'[Len(conns')]
         IN  /\ PasswordPresent(env) =>
                  /\ c.http_scheme = <<"h","t","t","p","s">>
                  /\ c.auth.kind = "Basic"
                  /\ c.auth.username = env["TRINO_USER"]
                  /\ c.auth.password = env["TRINO_PASSWORD"]
             /\ ~PasswordPresent(env) =>
                  /\ c.http_scheme = <<"h","t","t","p">>
                  /\ c.auth.kind = "None"]_vars

\* a connection opened with a password: https and basic authentication
C11_Witness ==
    /\ conns # <<>>
    /\ conns[1].auth.kind = "Basic"
    /\ conns[1].http_scheme = <<"h","t","t","p","s">>

\* the variable is unset or empty
Blank(e, name) ==
    e[name] \in {<<"<None>">>, <<>>}

\* after the defaults of host and port, a required setting is empty or unset
RequiredMissing(e) ==
    \/ e["TRINO_HOST"] = <<>>
    \/ e["TRINO_PORT"] = <<>>
    \/ Blank(e, "TRINO_USER")
    \/ Blank(e, "TRINO_CATALOG")
    \/ Blank(e, "TRINO_SCHEMA")

\* the step resolves the configuration: main() at startup, the first step of
\* list_resources and read_resource, and the connection step of each handler
Resolves ==
    /\ env' = env
    /\ \/ pc = "main"
       \/ pc = "serving" /\ request'.kind \in {"list_resources", "read_resource"}
       \/ pc \in {"list_resources_connect", "read_resource_connect",
                  "call_tool_connect"}

\* C12: resolving the configuration with host, port, user, catalog or schema
\* empty or unset after the defaults raises the ValueError of get_db_config
\* (ConfigError) and opens no connection; a connection is only ever opened
\* under a complete configuration; host and port unset and the password unset
\* do not make the resolution fail.
C12_MissingSettingIsConfigError ==
    /\ [][(Resolves /\ RequiredMissing(env)) =>
            /\ pc' \in {"aborted", "done"}
            /\ outcome'.status = "raised"
            /\ outcome'.error.type = "ValueError"
            /\ (env["TRINO_PORT"] # <<>>) =>
                  outcome'.error.msg = MSG_MISSING_CONFIG
            /\ conns' = conns
            /\ submitted' = submitted]_vars
    /\ [][Opens => ~RequiredMissing(env)]_vars
    /\ [][(/\ pc = "main"
           /\ env["TRINO_HOST"] = <<"<None>">>
           /\ env["TRINO_PORT"] = <<"<None>">>
           /\ env["TRINO_PASSWORD"] = <<"<None>">>
           /\ ~RequiredMissing(env)) => pc' = "serving"]_vars

\* call_tool reached its connection step with the schema unset: it raised
\* the configuration error and opened nothing
C12_Witness ==
    /\ Finished("call_tool")
    /\ query # <<>>
    /\ env["TRINO_SCHEMA"] = <<"<None>">>
    /\ ~Blank(env, "TRINO_USER")
    /\ ~Blank(env, "TRINO_CATALOG")
    /\ outcome.error.msg = MSG_MISSING_CONFIG
    /\ conns = <<>>

\* read_resource has opened its connection and the engine raised nothing
ReadAnswered ==
    /\ Finished("read_resource")
    /\ conns # <<>>
    /\ raised = <<>>

\* length of the first path segment of an address after its 8-character
\* scheme prefix: the characters up to the first "/" or the end
SegmentLength(uri) ==
    CHOOSE n \in 0..(Len(uri) - 8) :
        /\ \A i \in 1..n : uri[8 + i] # "/"
        /\ 8 + n = Len(uri) \/ uri[8 + n + 1] = "/"

FirstSegment(uri) ==
    [i \in 1..SegmentLength(uri) |-> uri[8 + i]]

\* C13: read_resource of trino://<table>/<anything> submits the one statement
\* SELECT * FROM <catalog>.<schema>.<table> LIMIT 100, with <table> the first
\* path segment of the address, and returns the header line of the column
\* names and one line per row, comma-joined; trino://t1/data and
\* trino://t1/x/y both give SELECT * FROM hive.s1.t1 LIMIT 100 under
\* catalog hive and schema s1.
C13_ReadSamplesFirstSegment ==
    ReadAnswered =>
        /\ submitted =
              <<<<"S","E","L","E","C","T"," ","*"," ","F","R","O","M"," ">> \o config.catalog \o <<".">> \o config.schema
                  \o <<".">> \o FirstSegment(request.uri) \o <<" ","L","I","M","I","T"," ","1","0","0">>>>
        /\ (/\ request.uri \in {<<"t","r","i","n","o",":","/","/","t","1","/","d","a","t","a">>, <<"t","r","i","n","o",":","/","/","t","1","/","x","/","y">>}
            /\ config.catalog = <<"h","i","v","e">>
            /\ config.schema = <<"s","1">>)
              => submitted = <<
                   <<"S","E","L","E","C","T"," ","*"," ","F","R","O","M"," ","h","i","v","e",".","s","1",".","t","1"," ","L","I","M","I","T"," ","1","0","0">>>>
        /\ fetches = 1
        /\ outcome.status = "returned"
        /\ LET lines == Split(outcome.value, "\n")
           IN  /\ Len(lines) = 1 + Len(cursor.rows)
               /\ Split(lines[1], ",") = ColumnNames(cursor.description)
               /\ \A i \in 1..Len(cursor.rows) :
                     Split(lines[i + 1], ",") = MapStr(cursor.rows[i])

\* an address with two trailing segments, answered with rows
C13_Witness ==
    /\ ReadAnswered
    /\ request.uri = <<"t","r","i","n","o",":","/","/","t","1","/","x","/","y">>
    /\ table = <<"t","1">>
    /\ Len(cursor.rows) = 2
    /\ outcome.status = "returned"

\* list_resources has opened its connection and the engine raised nothing
ListAnswered ==
    /\ Finished("list_resources")
    /\ conns # <<>>
    /\ raised = <<>>

\* C14: list_resources answered by the engine has submitted
\* SHOW TABLES IN <catalog>.<schema> and returns one descriptor per returned
\* table name, in the returned order, with address trino://<table>/data,
\* name "Table: <table>" and media type text/plain.
C14_ListDescribesEachTable ==
    ListAnswered =>
        /\ submitted =
              <<<<"S","H","O","W"," ","T","A","B","L","E","S"," ","I","N"," ">> \o config.catalog \o <<".">> \o config.schema>>
        /\ outcome.status = "returned"
        /\ Len(outcome.value) = Len(cursor.rows)
        /\ \A i \in 1..Len(cursor.rows) :
              LET t == cursor.rows[i][1].s
              IN  /\ outcome.value[i].uri =
                        <<"t","r","i","n","o",":","/","/">> \o t \o <<"/","d","a","t","a">>
                  /\ outcome.value[i].name = <<"T","a","b","l","e",":"," ">> \o t
                  /\ outcome.value[i].mimeType = <<"t","e","x","t","/","p","l","a","i","n">>
        /\ (cursor.rows = <<<<StrCell(<<"t","2">>)>>, <<StrCell(<<"t","1">>)>>>>)
              => /\ outcome.value[1].uri = <<"t","r","i","n","o",":","/","/","t","2","/","d","a","t","a">>
                 /\ outcome.value[2].uri = <<"t","r","i","n","o",":","/","/","t","1","/","d","a","t","a">>

\* the engine listed t2 then t1
C14_Witness ==
    /\ ListAnswered
    /\ cursor.rows = <<<<StrCell(<<"t","2">>)>>, <<StrCell(<<"t","1">>)>>>>
    /\ Len(outcome.value) = 2
    /\ outcome.value[1].name = <<"T","a","b","l","e",":"," ">> \o <<"t","2">>

\* C15: list_tools returns the one tool execute_sql with the one required
\* string argument query, the same at every call whatever the environment
\* and the engine; it resolves no configuration, opens no connection and
\* submits no statement.
C15_ListToolsIsStatic ==
    Finished("list_tools") =>
        /\ outcome.status = "returned"
        /\ outcome.value =
              <<[name       |-> <<"e","x","e","c","u","t","e","_","s","q","l">>,
                 properties |-> {<<"query", "string">>},
                 required   |-> <<"query">>]>>
        /\ config = NoConfig
        /\ conns = <<>>
        /\ submitted = <<>>
        /\ fetches = 0
        /\ raised = <<>>

\* list_tools answered under an environment without user
C15_Witness ==
    /\ Finished("list_tools")
    /\ Blank(env, "TRINO_USER")
    /\ outcome.status = "returned"
    /\ Len(outcome.value) = 1

\* C16: within one request at most one connection is opened and at most one
\* statement is submitted; once the engine has failed, the handler has
\* finished with its report of the failure, and nothing is opened or
\* submitted for the request afterwards.
C16_NoRetry ==
    /\ [](/\ Len(conns) <= 1
          /\ Len(submitted) <= 1
          /\ Len(raised) <= 1
          /\ raised # <<>> => /\ pc = "done"
                              /\ outcome.status \in {"returned", "raised"})
    /\ [][raised # <<>> => /\ Len(conns') <= Len(conns)
                           /\ Len(submitted') <= Len(submitted)]_vars

\* a request whose one submission failed: one connection, one statement
C16_Witness ==
    /\ pc = "done"
    /\ Len(raised) = 1
    /\ Len(conns) = 1
    /\ Len(submitted) = 1
    /\ fetches = 0

\* C17: in a list_resources or read_resource request, the catalog and schema
\* named in the submitted statement are those the connection of the request
\* is bound to, also when the environment changes during the request.
C17_StatementNamesBoundNamespace ==
    (request.kind \in {"list_resources", "read_resource"} /\ submitted # <<>>)
        => LET namespace == conns[1].catalog \o <<".">> \o conns[1].schema
           IN  submitted[1] =
                  IF request.kind = "list_resources"
                  THEN <<"S","H","O","W"," ","T","A","B","L","E","S"," ","I","N"," ">> \o namespace
                  ELSE <<"S","E","L","E","C","T"," ","*"," ","F","R","O","M"," ">> \o namespace \o <<".">> \o table \o <<" ","L","I","M","I","T"," ","1","0","0">>

\* C18: main() resolves the configuration before it serves: with a required
\* setting missing at startup it raises the ValueError of get_db_config
\* (ConfigError) and the process stays aborted; an aborted process has
\* handled no request, and a request is only taken after startup succeeded.
C18_MissingSettingAbortsStartup ==
    /\ [][(pc = "main" /\ RequiredMissing(env)) =>
            /\ pc' = "aborted"
            /\ outcome'.status = "raised"
            /\ outcome'.error.type = "ValueError"]_vars
    /\ [](pc = "aborted" => /\ request.kind = "none"
                            /\ conns = <<>>
                            /\ submitted = <<>>)
    /\ [][pc = "aborted" => pc' = "aborted"]_vars
    /\ [][request'.kind # "none" => pc \notin {"main", "aborted"}]_vars

\* startup without a catalog: the process aborted
C18_Witness ==
    /\ pc = "aborted"
    /\ Blank(env, "TRINO_CATALOG")
    /\ outcome.status = "raised"
    /\ request.kind = "none"

\* C19: the address list_resources emits for a returned table name t begins
\* with trino:// and read_resource resolves it to t: the first segment that
\* read_resource takes from that address is t, and a read_resource request
\* on such an address samples <catalog>.<schema>.t.
C19_ListedAddressReadsSameTable ==
    /\ ListAnswered =>
          \A i \in 1..Len(outcome.value) :
              LET uri == outcome.value[i].uri
                  t   == cursor.rows[i][1].s
              IN  /\ StartsWith(uri, TRINO_SCHEME)
                  /\ ~BadScheme(uri)
                  /\ Split(SliceFrom(uri, 8), "/")[1] = t
    /\ \A row \in TableRows :
          (/\ request.kind = "read_resource"
           /\ request.uri = Resource(row).uri
           /\ config # NoConfig)
              => /\ table = row[1].s
                 /\ submitted # <<>> =>
                       submitted[1] =
                          <<"S","E","L","E","C","T"," ","*"," ","F","R","O","M"," ">> \o config.catalog \o <<".">>
                             \o config.schema \o <<".">> \o row[1].s \o <<" ","L","I","M","I","T"," ","1","0","0">>

\* both tables listed, in one request
C19_Witness ==
    /\ ListAnswered
    /\ Len(outcome.value) = 2
    /\ outcome.value[1].uri # outcome.value[2].uri
====
